---- MODULE Spec2Model ----
(***************************************************************************)
(* Model of the pressure sensor driver of haxo-rs (src/pressure.rs).       *)
(*                                                                         *)
(* The driver owns one I2C channel and a baseline.  Pressure::init opens   *)
(* the bus, logs its metadata, sets the slave address, and takes one raw   *)
(* reading as the baseline.  Pressure::read takes one raw reading and      *)
(* returns min((raw - baseline) / 6, 127).  The bus (rppal::i2c::I2c) is   *)
(* the environment: each of its calls may succeed or fail, and a read      *)
(* reports how many bytes it wrote into the two-byte buffer.               *)
(***************************************************************************)
EXTENDS Integers, Sequences, FiniteSets

VARIABLES
    sensor,   \* <<>> while no Pressure value exists, else <<[baseline |-> b]>>
    txns,     \* the i2c.read transactions made on the current channel, in order
    rets,     \* the values returned by the read() calls on the sensor, in order
    calls,    \* the bus calls made by the latest init(), in order
    initRet,  \* what the latest init() returned
    inits     \* number of init() calls made so far

vars == <<sensor, txns, rets, calls, initRet, inits>>

----------------------------------------------------------------------------
(* Bounds of the exploration. *)

MaxReads == 2
MaxInits == 2

(* Program constants. *)

ADDR_PRESSURE_SENSOR == 77
PRESSURE_SCALING_FACTOR == 6
MidiMax == 127
RawOffset == 2048
ShiftBits == 8
BufLen == 2
ByteMax == 255
I32Max == 2147483647
I32Min == -I32Max - 1

(* Two-byte words the sensor delivers in the bounded exploration: the      *)
(* extremes of the 16-bit word, the centre of the 12-bit range, and words  *)
(* around the rounding and clamping boundaries of read().                  *)
WordSamples ==
    { <<0, 0>>, <<255, 255>>, <<8, 0>>, <<5, 0>>,
      <<7, 251>>, <<11, 0>>, <<10, 250>>, <<10, 249>> }

(* The words of which a transaction may deliver only a prefix. *)
ShortSamples == { <<8, 0>>, <<255, 255>> }

AllWords == (0..ByteMax) \X (0..ByteMax)

----------------------------------------------------------------------------
(* Integer arithmetic of the source language. *)

Min(a, b) == IF a <= b THEN a ELSE b

RECURSIVE Pow2(_)
Pow2(n) == IF n = 0 THEN 1 ELSE 2 * Pow2(n - 1)

\* x << n on a non-negative i32 whose shifted value fits.
Shl(x, n) == x * Pow2(n)

\* a | b on non-negative integers, bit by bit (x | 0 = x ends it).
RECURSIVE BitOr(_, _)
BitOr(a, b) ==
    IF b = 0 THEN a
    ELSE IF a = 0 THEN b
    ELSE (IF a % 2 = 1 \/ b % 2 = 1 THEN 1 ELSE 0) + 2 * BitOr(a \div 2, b \div 2)

FloorDiv(a, b) == a \div b

\* a / b on i32 with b > 0: the quotient truncated toward zero.
TruncDiv(a, b) == IF a >= 0 THEN a \div b ELSE -((-a) \div b)

----------------------------------------------------------------------------
(* The bus. *)

\* The buffer after i2c.read wrote n bytes of word w into [0u8; 2].
Delivered(w, n) ==
    << IF n >= 1 THEN w[1] ELSE 0, IF n >= 2 THEN w[2] ELSE 0 >>

\* The outcomes of one i2c.read(&mut reg): an error, Ok(2) with a word of
\* W in the buffer, or Ok(n), n < 2, with the first n bytes of a word of S.
TxnsOf(W, S) ==
    { [ok |-> FALSE, n |-> 0, reg |-> <<0, 0>>] }
      \cup { [ok |-> TRUE, n |-> BufLen, reg |-> Delivered(w, BufLen)] : w \in W }
      \cup { [ok |-> TRUE, n |-> n, reg |-> Delivered(w, n)] : w \in S, n \in 0..(BufLen - 1) }

SampleTxns == TxnsOf(WordSamples, ShortSamples)

AllTxns == TxnsOf(AllWords, AllWords)

Call(op, arg, ok) == [op |-> op, arg |-> arg, ok |-> ok]

Ok(v) == [kind |-> "Ok", val |-> v]
Err(e) == [kind |-> "Err", err |-> e]

----------------------------------------------------------------------------
(* Pressure::read_io *)

\* The values `result` takes, statement by statement.
decodeSteps(reg) ==
    LET s1 == reg[1]
        s2 == Shl(s1, ShiftBits)
        s3 == BitOr(s2, reg[2])
        s4 == s3 - RawOffset
    IN  <<s1, s2, s3, s4>>

decodeLittleEndian(reg) == BitOr(Shl(reg[2], ShiftBits), reg[1]) - RawOffset

decodeNoOffset(reg) == decodeSteps(reg)[3]

decode(reg) == decodeSteps(reg)[4]

read_io(t) == IF t.ok THEN Ok(decode(t.reg)) ELSE Err("ReadFailure")

----------------------------------------------------------------------------
(* Pressure::read *)

clampOff(x) == x

clamp(x) == Min(x, MidiMax)

scaleFloor(pressure, baseline) == FloorDiv(pressure - baseline, PRESSURE_SCALING_FACTOR)

scale(pressure, baseline) == TruncDiv(pressure - baseline, PRESSURE_SCALING_FACTOR)

readResultStale(baseline, t) ==
    LET r == read_io(t)
    IN  IF r.kind = "Err" THEN Ok(0) ELSE Ok(clamp(scale(r.val, baseline)))

readResult(baseline, t) ==
    LET r == read_io(t)
    IN  IF r.kind = "Err" THEN r ELSE Ok(clamp(scale(r.val, baseline)))

readOn(T) ==
    /\ sensor # <<>>
    /\ Len(rets) < MaxReads
    /\ \E t \in T :
          /\ txns' = Append(txns, t)
          /\ rets' = Append(rets, readResult(sensor[1].baseline, t))
    /\ UNCHANGED <<sensor, calls, initRet, inits>>

readRecalibrate ==
    /\ sensor # <<>>
    /\ Len(rets) < MaxReads
    /\ \E t \in SampleTxns :
          /\ txns' = Append(txns, t)
          /\ rets' = Append(rets, readResult(sensor[1].baseline, t))
          /\ sensor' = IF t.ok THEN <<[baseline |-> decode(t.reg)]>> ELSE sensor
    /\ UNCHANGED <<calls, initRet, inits>>

readTwice ==
    /\ sensor # <<>>
    /\ Len(rets) < MaxReads
    /\ \E t0 \in SampleTxns, t \in SampleTxns :
          /\ txns' = txns \o <<t0, t>>
          /\ rets' = Append(rets, readResult(sensor[1].baseline, t))
    /\ UNCHANGED <<sensor, calls, initRet, inits>>

read == readOn(SampleTxns)

----------------------------------------------------------------------------
(* Pressure::init *)

InitOut(c, r, s, t) == [calls |-> c, ret |-> r, sensor |-> s, txns |-> t]

\* The bus calls up to and including the debug! line after I2c::new
\* succeeded.  The macro evaluates its arguments only when debug logging
\* is enabled.
Metadata(debugOn, clockOk) ==
    IF debugOn
    THEN <<Call("bus", 0, TRUE), Call("clock_speed", 0, clockOk)>>
    ELSE <<>>

initRunIgnoreAddr(openOk, debugOn, clockOk, addrOk, t) ==
    IF ~openOk
    THEN InitOut(<<Call("new", 0, FALSE)>>, Err("BusUnavailable"), <<>>, <<>>)
    ELSE LET pre == <<Call("new", 0, TRUE)>> \o Metadata(debugOn, clockOk)
                      \o <<Call("set_slave_address", ADDR_PRESSURE_SENSOR, addrOk)>>
             r == read_io(t)
         IN  IF debugOn /\ ~clockOk
             THEN InitOut(<<Call("new", 0, TRUE)>> \o Metadata(debugOn, clockOk),
                          Err("ClockSpeedError"), <<>>, <<>>)
             ELSE IF r.kind = "Err"
             THEN InitOut(Append(pre, Call("read", BufLen, FALSE)), r, <<>>, <<t>>)
             ELSE InitOut(Append(pre, Call("read", BufLen, TRUE)), [kind |-> "Ok"],
                          <<[baseline |-> r.val]>>, <<t>>)

initRun(openOk, debugOn, clockOk, addrOk, t) ==
    IF ~openOk
    THEN InitOut(<<Call("new", 0, FALSE)>>, Err("BusUnavailable"), <<>>, <<>>)
    ELSE LET opened == <<Call("new", 0, TRUE)>> \o Metadata(debugOn, clockOk)
         IN  IF debugOn /\ ~clockOk
             THEN InitOut(opened, Err("ClockSpeedError"), <<>>, <<>>)
             ELSE IF ~addrOk
             THEN InitOut(Append(opened, Call("set_slave_address", ADDR_PRESSURE_SENSOR, FALSE)),
                          Err("ConfigurationError"), <<>>, <<>>)
             ELSE LET pre == Append(opened,
                                    Call("set_slave_address", ADDR_PRESSURE_SENSOR, TRUE))
                      r == read_io(t)
                  IN  IF r.kind = "Err"
                      THEN InitOut(Append(pre, Call("read", BufLen, FALSE)), r, <<>>, <<t>>)
                      ELSE InitOut(Append(pre, Call("read", BufLen, TRUE)), [kind |-> "Ok"],
                                   <<[baseline |-> r.val]>>, <<t>>)

\* Every combination of outcomes of the four fallible bus calls of init().
InitInputs(T) == BOOLEAN \X BOOLEAN \X BOOLEAN \X BOOLEAN \X T

\* The same outcomes, drawn only for the calls init() reaches: a call that
\* follows a failed one is not made, so its outcome is fixed.
ReachedInputs(T) ==
    LET none == [ok |-> FALSE, n |-> 0, reg |-> <<0, 0>>]
    IN  { <<FALSE, FALSE, TRUE, TRUE, none>>, <<TRUE, TRUE, FALSE, TRUE, none>> }
          \cup { <<TRUE, d, TRUE, FALSE, none>> : d \in BOOLEAN }
          \cup { <<TRUE, d, TRUE, TRUE, t>> : d \in BOOLEAN, t \in T }

initOn(I) ==
    /\ sensor = <<>>
    /\ inits < MaxInits
    /\ \E in \in I :
          LET out == initRun(in[1], in[2], in[3], in[4], in[5])
          IN  /\ sensor' = out.sensor
              /\ txns' = out.txns
              /\ calls' = out.calls
              /\ initRet' = out.ret
    /\ rets' = <<>>
    /\ inits' = inits + 1

init == initOn(InitInputs(SampleTxns))

\* The first init() of the process, over every word the bus can deliver.
initAny == inits = 0 /\ initOn(ReachedInputs(AllTxns))

----------------------------------------------------------------------------
(* Specifications. *)

Init ==
    /\ sensor = <<>>
    /\ txns = <<>>
    /\ rets = <<>>
    /\ calls = <<>>
    /\ initRet = [kind |-> "None"]
    /\ inits = 0

Next == init \/ read

Spec == Init /\ [][Next]_vars

\* Initialization alone, with every two-byte word the bus can deliver.
NextAny == initAny

SpecAny == Init /\ [][NextAny]_vars

----------------------------------------------------------------------------
(* Vocabulary of the properties. *)

Ready == sensor # <<>>

B == sensor[1].baseline

\* The transaction made by the k-th read() call: init() made the first.
TxnOf(k) == txns[k + 1]

\* The raw reading the k-th read() call obtained.
R(k) == decode(TxnOf(k).reg)

Reads == 1..Len(rets)

OkReads == { k \in Reads : rets[k].kind = "Ok" }

InI32(x) == I32Min <= x /\ x <= I32Max

\* The calls of init() that are steps of the contract (not the logging).
Steps == SelectSeq(calls, LAMBDA c : c.op \notin {"bus", "clock_speed"})

StepOrder == <<"new", "set_slave_address", "read">>

StepError == <<"BusUnavailable", "ConfigurationError", "ReadFailure">>

----------------------------------------------------------------------------
(* C1: every successful read() returns min((R - B) / 6, 127), the          *)
(* quotient truncated toward zero: 127 when R - B >= 762, and otherwise    *)
(* the v with 6v <= R - B < 6v + 6 when R - B >= 0 and with                *)
(* 6v - 6 < R - B <= 6v when R - B < 0.                                    *)
C1_ScalingFormula ==
    Ready =>
        \A k \in OkReads :
            LET d == R(k) - B
                v == rets[k].val
            IN  IF d >= 6 * 127 THEN v = 127
                ELSE IF d >= 0 THEN 6 * v <= d /\ d < 6 * v + 6
                ELSE 6 * v - 6 < d /\ d <= 6 * v

\* A read with R - B = -5 returned 0 and a read with R - B = 768 returned 127.
C1_Witness ==
    /\ Ready
    /\ \E j \in OkReads, k \in OkReads :
          /\ R(j) - B = -5 /\ rets[j].val = 0
          /\ R(k) - B = 768 /\ rets[k].val = 127

C3_RawDecode ==
    Ready =>
        (TxnOf(0).n = 2 => B = 256 * TxnOf(0).reg[1] + TxnOf(0).reg[2] - 2048)

\* The bytes (0x08, 0x00) were delivered and decoded to 0.
C3_Witness ==
    /\ Ready
    /\ TxnOf(0).n = 2
    /\ TxnOf(0).reg = <<8, 0>>
    /\ B = 0

(* C4: a successful init() makes exactly one transaction and each read()   *)
(* exactly one, in call order: the baseline is the raw value of the first  *)
(* transaction of the channel and the k-th read() is computed from         *)
(* transaction k + 1.                                                      *)
C4_OneTransactionPerCallInOrder ==
    Ready =>
        /\ Len(SelectSeq(calls, LAMBDA c : c.op = "read")) = 1
        /\ Len(txns) = 1 + Len(rets)
        /\ txns[1].ok
        /\ B = decode(txns[1].reg)
        /\ \A k \in Reads : rets[k] = readResult(B, txns[k + 1])

\* Two reads saw different words and returned different values, each its own.
C4_Witness ==
    /\ Ready
    /\ Len(rets) = 2
    /\ rets[1].kind = "Ok" /\ rets[2].kind = "Ok"
    /\ R(1) # R(2)
    /\ rets[1].val # rets[2].val
    /\ B # R(1)

(* C5: once the sensor exists no operation changes its baseline, and two   *)
(* successful reads that saw the same raw input returned the same output.  *)
C5_BaselineFixed ==
    /\ [][Ready => (Ready' /\ sensor'[1].baseline = B)]_vars
    /\ [](Ready => \A j \in OkReads, k \in OkReads :
                       R(j) = R(k) => rets[j].val = rets[k].val)

\* Two successful reads of the same raw input, away from the baseline.
C5_Witness ==
    /\ Ready
    /\ Len(rets) = 2
    /\ OkReads = {1, 2}
    /\ R(1) = R(2)
    /\ R(1) # B
    /\ rets[1].val = rets[2].val
    /\ B = decode(txns[1].reg)

(* C6: a read() whose transaction fails returns ReadFailure and no value,  *)
(* after exactly one transaction; the sensor stays with its baseline, and  *)
(* a later read() whose transaction succeeds returns the calibrated value. *)
C6_ReadFailure ==
    Ready =>
        \A k \in Reads :
            ~TxnOf(k).ok =>
                /\ rets[k].kind = "Err"
                /\ rets[k].err = "ReadFailure"
                /\ "val" \notin DOMAIN rets[k]
                /\ Len(txns) = 1 + Len(rets)
                /\ B = decode(txns[1].reg)
                /\ \A j \in Reads :
                      (j > k /\ TxnOf(j).ok) =>
                          rets[j] = Ok(Min(TruncDiv(R(j) - B, 6), 127))

\* A failed read followed by a successful one that returned a non-zero value.
C6_Witness ==
    /\ Ready
    /\ Len(rets) = 2
    /\ ~TxnOf(1).ok /\ rets[1].kind = "Err"
    /\ TxnOf(2).ok /\ rets[2].kind = "Ok" /\ rets[2].val # 0

(* C7: init() makes the steps open, set address 0x4D, read baseline in     *)
(* that order; the first step that fails ends it with that step's error    *)
(* and no sensor, and no later step is made: a transaction is made only    *)
(* after the bus was opened and the address set.                           *)
C7_InitStepsInOrder ==
    inits > 0 =>
        LET n == Len(Steps)
        IN  /\ n \in 1..3
            /\ \A i \in 1..n : Steps[i].op = StepOrder[i]
            /\ \A i \in 1..(n - 1) : Steps[i].ok
            /\ \A i \in 1..n : Steps[i].op = "set_slave_address" => Steps[i].arg = 77
            /\ ~Steps[n].ok =>
                  /\ initRet = Err(StepError[n])
                  /\ ~Ready
            /\ ~Ready => Len(txns) = (IF n = 3 THEN 1 ELSE 0)
            /\ Ready => (n = 3 /\ Steps[n].ok /\ initRet.kind = "Ok")

\* The address could not be set: ConfigurationError, and no transaction.
C7_Witness ==
    /\ inits > 0
    /\ initRet = Err("ConfigurationError")
    /\ ~Ready
    /\ txns = <<>>
    /\ Len(Steps) = 2

(* C8: whatever the metadata queries return, init() returns a sensor or    *)
(* one of BusUnavailable, ConfigurationError, ReadFailure.                 *)
C8_MetadataNotInContract ==
    inits > 0 =>
        \/ initRet.kind = "Ok"
        \/ initRet.err \in {"BusUnavailable", "ConfigurationError", "ReadFailure"}

(* C9: a raw read yields a baseline or a reading only when its transaction *)
(* delivered both bytes.                                                   *)
C9_BothBytesDelivered ==
    Ready =>
        /\ TxnOf(0).n = 2
        /\ \A k \in OkReads : TxnOf(k).n = 2

(* C10: every raw reading lies in [-2048, 63487], every difference R - B   *)
(* in [-65535, 65535], every value read() returns in [-10922, 127], and    *)
(* every intermediate value of read_io and read fits a signed 32-bit       *)
(* integer.                                                                *)
C10_NumericBounds ==
    /\ \A i \in 1..Len(txns) :
          txns[i].ok =>
              LET st == decodeSteps(txns[i].reg)
              IN  /\ \A s \in 1..4 : InI32(st[s])
                  /\ -2048 <= st[4] /\ st[4] <= 63487
    /\ Ready =>
          /\ -2048 <= B /\ B <= 63487
          /\ \A k \in OkReads :
                LET d == R(k) - B
                IN  /\ -65535 <= d /\ d <= 65535
                    /\ InI32(d) /\ InI32(TruncDiv(d, PRESSURE_SCALING_FACTOR))
                    /\ -10922 <= rets[k].val /\ rets[k].val <= 127

\* The extremes: baseline 63487, reading -2048, returned -10922.
C10_Witness ==
    /\ Ready
    /\ B = 63487
    /\ \E k \in OkReads : R(k) = -2048 /\ R(k) - B = -65535 /\ rets[k].val = -10922

====
